---- MODULE Spec2Model ----
(***************************************************************************)
(* Model of car_gazebo_plugin::CarGazeboPlugin                             *)
(* (src/car_gazebo_plugin/src/car_gazebo_plugin.cpp).                      *)
(*                                                                         *)
(* Simulation time is counted in whole milliseconds (UnitsPerSecond units  *)
(* per second); gazebo::common::Time::Double() turns a time into seconds,  *)
(* so the gate of Update compares  units * 1000  against                   *)
(* update_period_ms_ * UnitsPerSecond.  Real-valued targets are integers   *)
(* in tenths (0.3 is 3, 2.0 is 20).                                        *)
(*                                                                         *)
(* get_joint, joy_callback, ackermann_callback and publish_state are       *)
(* declared in car_gazebo_plugin.hpp, which is not among the sources; they *)
(* are modelled from the specification (sections 4.1, 4.3, 4.5 and 7).     *)
(***************************************************************************)
EXTENDS Integers, Sequences, FiniteSets, TLC

\* ------------------------------------------------------------------ bounds
MaxTime == 20
MaxStep == 3
MaxMissing == 1
MaxPose == 1

\* ------------------------------------------------------- program constants
DefaultUpdatePeriodMs == 8
JointTargetAtLoad == 0
ShockTargetAtLoad == 0
UnitsPerSecond == 1000

NullJoint == "nullptr"
ModelName == "car"

\* ------------------------------------------------------------ joint names
\* Every joint name a model description may contain, in the order in which
\* a std::map keyed by std::string iterates (lexicographic).
NameOrder ==
  << "back_left_shock_joint", "back_left_wheel_joint",
     "back_right_shock_joint", "back_right_wheel_joint",
     "chassis_fixed_joint",
     "front_left_shock_joint", "front_left_wheel_joint",
     "front_left_wheel_steer_joint",
     "front_right_shock_joint", "front_right_wheel_joint",
     "front_right_wheel_steer_joint",
     "steering_joint" >>

AllNames == { NameOrder[i] : i \in 1..Len(NameOrder) }

Rank(n) == CHOOSE i \in 1..Len(NameOrder) : NameOrder[i] = n

\* gazebo::physics::Joint::GetScopedName : model name :: joint name
ScopedName(n) == << ModelName, n >>

\* gazebo::common::PID(p, i, d); gains are kept as written in the source
PID(p, i, d) == [p |-> p, i |-> i, d |-> d]

Put(f, k, v) == [x \in (DOMAIN f) \cup {k} |-> IF x = k THEN v ELSE f[x]]

EmptyMap == [x \in {} |-> 0]

\* ------------------------------------------------------------------ Load
\* The lookups of Load in program order: the plugin field that is bound,
\* the joint name that is looked up and what Load does with the joint.
\* (mutation: the front-right steer lookup repeats the front-left name)
LoadSteps_WrongSteer ==
  << [field |-> "fl_str_joint",   name |-> "front_left_wheel_steer_joint",  use |-> "steer"],
     [field |-> "fl_shock_joint", name |-> "front_left_shock_joint",        use |-> "shock"],
     [field |-> "fr_shock_joint", name |-> "front_right_shock_joint",       use |-> "shock"],
     [field |-> "bl_shock_joint", name |-> "back_left_shock_joint",         use |-> "shock"],
     [field |-> "br_shock_joint", name |-> "back_right_shock_joint",        use |-> "shock"],
     [field |-> "fr_str_joint",   name |-> "front_left_wheel_steer_joint",  use |-> "steer"],
     [field |-> "fl_axle_joint",  name |-> "front_left_wheel_joint",        use |-> "front_axle"],
     [field |-> "fr_axle_joint",  name |-> "front_right_wheel_joint",       use |-> "front_axle"],
     [field |-> "bl_axle_joint",  name |-> "back_left_wheel_joint",         use |-> "back_axle"],
     [field |-> "br_axle_joint",  name |-> "back_right_wheel_joint",        use |-> "back_axle"] >>

LoadSteps ==
  << [field |-> "fl_str_joint",   name |-> "front_left_wheel_steer_joint",  use |-> "steer"],
     [field |-> "fl_shock_joint", name |-> "front_left_shock_joint",        use |-> "shock"],
     [field |-> "fr_shock_joint", name |-> "front_right_shock_joint",       use |-> "shock"],
     [field |-> "bl_shock_joint", name |-> "back_left_shock_joint",         use |-> "shock"],
     [field |-> "br_shock_joint", name |-> "back_right_shock_joint",        use |-> "shock"],
     [field |-> "fr_str_joint",   name |-> "front_right_wheel_steer_joint", use |-> "steer"],
     [field |-> "fl_axle_joint",  name |-> "front_left_wheel_joint",        use |-> "front_axle"],
     [field |-> "fr_axle_joint",  name |-> "front_right_wheel_joint",       use |-> "front_axle"],
     [field |-> "bl_axle_joint",  name |-> "back_left_wheel_joint",         use |-> "back_axle"],
     [field |-> "br_axle_joint",  name |-> "back_right_wheel_joint",        use |-> "back_axle"] >>

NumSteps == Len(LoadSteps)

Fields == { LoadSteps[i].field : i \in 1..NumSteps }

RoleNames == { LoadSteps[i].name : i \in 1..NumSteps }

\* A model description: the joints of the model, each fixed or not.
\* At most MaxMissing of the role joints are absent or fixed.
ModelDescriptions ==
  { [n \in AllNames |->
       IF n \in RoleNames THEN (IF n \in DOMAIN odd THEN odd[n] ELSE "revolute")
       ELSE IF n = "chassis_fixed_joint" THEN "fixed"
       ELSE extra] :
      odd \in UNION { [D -> {"absent", "fixed"}] :
                        D \in { S \in SUBSET RoleNames : Cardinality(S) <= MaxMissing } },
      extra \in {"absent", "revolute"} }

\* Load, "Find joints": every joint of the model that is not a FIXED_JOINT
NonFixedJoints(m) == { n \in AllNames : m[n] = "revolute" }

\* joints_[name] = std::make_pair(j, pid) with pid = (200, 0, 0)
DiscoverJoints(m) == [n \in NonFixedJoints(m) |-> PID("200.0", "0.0", "0.0")]

\* joint_targets_[name] = 0.0
DiscoverTargets(m) == [n \in NonFixedJoints(m) |-> JointTargetAtLoad]

\* get_joint(name): lookup in the joint registry; JointNotFound if absent
GetJointFound(registry, n) == n \in DOMAIN registry

\* Index of the first lookup of Load that fails, 0 when all succeed.
FirstFailure(registry) ==
  LET bad == { i \in 1..NumSteps : ~GetJointFound(registry, LoadSteps[i].name) }
  IN IF bad = {} THEN 0 ELSE CHOOSE i \in bad : \A k \in bad : i <= k

\* Number of lookups of Load that complete.
StepsDone(registry) ==
  IF FirstFailure(registry) = 0 THEN NumSteps ELSE FirstFailure(registry) - 1

\* Plugin fields fl_str_joint ... br_axle_joint after the first n lookups.
BindingsAfter(n) ==
  [f \in Fields |->
     IF \E i \in 1..n : LoadSteps[i].field = f
     THEN LoadSteps[CHOOSE i \in 1..n : LoadSteps[i].field = f].name
     ELSE NullJoint]

StepsOf(n, uses) == { i \in 1..n : LoadSteps[i].use \in uses }

\* jc->SetPositionPID for the steer and shock joints
PositionPIDAfter(n) ==
  [s \in { ScopedName(LoadSteps[i].name) : i \in StepsOf(n, {"steer", "shock"}) } |->
     LET i == CHOOSE k \in StepsOf(n, {"steer", "shock"}) : ScopedName(LoadSteps[k].name) = s
     IN IF LoadSteps[i].use = "steer" THEN PID("1", "0", "0")
        ELSE PID("shock_p", "0", "shock_d")]

\* jc->SetVelocityPID for the two back axles
VelocityPIDAfter(n) ==
  [s \in { ScopedName(LoadSteps[i].name) : i \in StepsOf(n, {"back_axle"}) } |->
     PID("0.1", "0.01", "0.0")]

\* jc->SetPositionTarget(shock, 0.0)
\* (mutation: every SetPositionTarget call names the front-left shock)
PositionTargetAfter_OnlyFrontLeft(n) ==
  [s \in { ScopedName(LoadSteps[i].name) :
             i \in { k \in StepsOf(n, {"shock"}) : LoadSteps[k].field = "fl_shock_joint" } } |->
     ShockTargetAtLoad]

PositionTargetAfter(n) ==
  [s \in { ScopedName(LoadSteps[i].name) : i \in StepsOf(n, {"shock"}) } |->
     ShockTargetAtLoad]

\* The world-update hook, the subscriptions and the odometry publishers are
\* created after the last lookup: only when no lookup has failed.
\* (mutation: the hook is connected before the lookups)
ReachesHook_BeforeLookups(failure) == TRUE

ReachesHook(failure) == failure = 0

\* ----------------------------------------------------------------- state
VARIABLES
  phase,               \* "constructed", "loaded" (Load returned), "failed" (Load threw)
  model_,              \* the model description handed to Load
  joints_,             \* joints_ : name -> PID (the JointPtr is the name)
  joint_targets_,      \* joint_targets_ : name -> target
  bound,               \* fl_str_joint ... br_axle_joint : field -> joint name
  posPID,              \* joint controller: position PIDs by scoped name
  velPID,              \* joint controller: velocity PIDs by scoped name
  posTarget,           \* joint controller: position targets by scoped name
  velTarget,           \* joint controller: velocity targets by scoped name
  subs,                \* subscriptions created by Load
  update_connection_,  \* TRUE when Update is connected to the world-update event
  now,                 \* world_->SimTime()
  pose,                \* physics state: selects the joint positions
  last_sim_time_,
  last_update_time_,
  update_period_ms_,
  out,                 \* messages handed to the transport by the last Update
  delivered,           \* whether the transport delivered them
  tickKind,            \* what the last step was: "none" or the branch Update took
  ticks,               \* number of Update calls so far: 0, 1, or 2 for "two or more"
  pubs,                \* sim time of the last joint-state publish
  calib,               \* sim time of the last calibration tick
  cmd                  \* the last drive command handled, with its channel

vars == << phase, model_, joints_, joint_targets_, bound, posPID, velPID, posTarget,
           velTarget, subs, update_connection_, now, pose, last_sim_time_,
           last_update_time_, update_period_ms_, out, delivered, tickKind,
           ticks, pubs, calib, cmd >>

loadVars == << model_, joints_, joint_targets_, bound, posPID, velPID, subs,
               update_connection_, update_period_ms_ >>

tickVars == << last_sim_time_, last_update_time_, ticks, pubs, calib >>

\* CarGazeboPlugin::CarGazeboPlugin
Init ==
  /\ phase = "constructed"
  /\ model_ = [n \in AllNames |-> "absent"]
  /\ joints_ = EmptyMap
  /\ joint_targets_ = EmptyMap
  /\ bound = BindingsAfter(0)
  /\ posPID = EmptyMap
  /\ velPID = EmptyMap
  /\ posTarget = EmptyMap
  /\ velTarget = EmptyMap
  /\ subs = {}
  /\ update_connection_ = FALSE
  /\ now = 0
  /\ pose = 0
  /\ last_sim_time_ = 0
  /\ last_update_time_ = 0
  /\ update_period_ms_ = DefaultUpdatePeriodMs
  /\ out = << >>
  /\ delivered = FALSE
  /\ tickKind = "none"
  /\ ticks = 0
  /\ pubs = << >>
  /\ calib = << >>
  /\ cmd = << >>

\* CarGazeboPlugin::Load on a model description m.  A failed lookup throws:
\* the assignments made before it stay, nothing after it is executed.
Load(m) ==
  /\ phase = "constructed"
  /\ LET registry == DiscoverJoints(m)
         failure  == FirstFailure(registry)
         n        == StepsDone(registry)
     IN /\ model_' = m
        /\ joints_' = registry
        /\ joint_targets_' = DiscoverTargets(m)
        /\ bound' = BindingsAfter(n)
        /\ posPID' = PositionPIDAfter(n)
        /\ velPID' = VelocityPIDAfter(n)
        /\ posTarget' = PositionTargetAfter(n)
        /\ subs' = IF failure = 0 THEN {"joy_sub", "ackermann_sub"} ELSE {}
        /\ update_connection_' = ReachesHook(failure)
        /\ phase' = IF failure = 0 THEN "loaded" ELSE "failed"
  /\ tickKind' = "none"
  /\ out' = << >>
  /\ delivered' = FALSE
  /\ UNCHANGED << velTarget, now, pose, last_sim_time_, last_update_time_,
                  update_period_ms_, ticks, pubs, calib, cmd >>

\* --------------------------------------------------------------- Update
\* joint->Position(): the position (in tenths) of joint n in physics state p
Position(n, p) == (Rank(n) * p) % 3

\* if (last_sim_time_ == 0)
IsUninitialized(last_sim) == last_sim = 0

\* (mutation: the calibration branch forgets last_update_time_)
Calibrate_KeepsUpdateTime(cur, last_update) ==
  [last_sim_time_ |-> cur, last_update_time_ |-> last_update]

\* last_sim_time_ = cur_time; last_update_time_ = cur_time; return;
Calibrate(cur, last_update) ==
  [last_sim_time_ |-> cur, last_update_time_ |-> cur]

\* (mutation: strict comparison)
Gate_Strict(cur, last_update, period) ==
  (cur - last_update) * 1000 > period * UnitsPerSecond

\* (mutation: the seconds are compared with the milliseconds)
Gate_Seconds(cur, last_update, period) ==
  (cur - last_update) >= period * UnitsPerSecond

\* (mutation: the period is halved)
Gate_HalfPeriod(cur, last_update, period) ==
  (cur - last_update) * 1000 * 2 >= period * UnitsPerSecond

\* update_dt = (cur_time - last_update_time_).Double();
\* if (update_dt * 1000 >= update_period_ms_)
Gate(cur, last_update, period) ==
  (cur - last_update) * 1000 >= period * UnitsPerSecond

\* (mutation: last_update_time_ is assigned outside the if)
NextUpdateTime_Always(cur, last_update, gate) == cur

\* last_update_time_ = cur_time, inside the if
NextUpdateTime(cur, last_update, gate) == IF gate THEN cur ELSE last_update

\* (mutation: last_sim_time_ is only assigned when a publish happened)
NextSimTime_OnlyOnPublish(cur, last_sim, gate) == IF gate THEN cur ELSE last_sim

\* last_sim_time_ = cur_time, at the end of Update
NextSimTime(cur, last_sim, gate) == cur

\* The names of the registry in the iteration order of the map.
RECURSIVE IterationFrom(_, _)
IterationFrom(registry, i) ==
  IF i > Len(NameOrder) THEN << >>
  ELSE IF NameOrder[i] \in DOMAIN registry
       THEN << NameOrder[i] >> \o IterationFrom(registry, i + 1)
       ELSE IterationFrom(registry, i + 1)

Iteration(registry) == IterationFrom(registry, 1)

\* (mutation: a joint at position zero gets a name but no position)
FillJointState_SkipsZero(order, p) ==
  [name     |-> order,
   position |-> SelectSeq([i \in 1..Len(order) |-> Position(order[i], p)],
                          LAMBDA x : x # 0)]

\* for (auto& j : joints_) { msg.name.push_back(name);
\*                           msg.position.push_back(position); }
FillJointState(order, p) ==
  [name     |-> order,
   position |-> [i \in 1..Len(order) |-> Position(order[i], p)]]

JointStateMsg(registry, p) ==
  [topic |-> "/joint_states", msg |-> FillJointState(Iteration(registry), p)]

\* publish_state(): the two odometry counters of the front axles
PublishState(b, p) ==
  << [topic |-> "odo_fl", msg |-> Position(b["fl_axle_joint"], p)],
     [topic |-> "odo_fr", msg |-> Position(b["fr_axle_joint"], p)] >>

\* One world step: the clock moves on by d, the joints move to physics
\* state p, and the world-update event calls CarGazeboPlugin::Update;
\* ok tells whether the transport delivers what the tick emits.
Update(d, p, ok) ==
  /\ update_connection_
  /\ now + d <= MaxTime
  /\ now' = now + d
  /\ pose' = p
  /\ LET cur_time == now + d IN
     IF IsUninitialized(last_sim_time_)
     THEN /\ last_sim_time_' = Calibrate(cur_time, last_update_time_).last_sim_time_
          /\ last_update_time_' = Calibrate(cur_time, last_update_time_).last_update_time_
          /\ out' = << >>
          /\ delivered' = FALSE
          /\ tickKind' = "calibration"
          /\ calib' = << cur_time >>
          /\ pubs' = pubs
     ELSE LET gate == Gate(cur_time, last_update_time_, update_period_ms_) IN
          /\ out' = IF gate
                    THEN PublishState(bound, p) \o << JointStateMsg(joints_, p) >>
                    ELSE << >>
          /\ delivered' = (gate /\ ok)
          /\ last_update_time_' = NextUpdateTime(cur_time, last_update_time_, gate)
          /\ last_sim_time_' = NextSimTime(cur_time, last_sim_time_, gate)
          /\ tickKind' = IF gate THEN "publish" ELSE "idle"
          /\ pubs' = IF gate THEN << cur_time >> ELSE pubs
          /\ calib' = calib
  /\ ticks' = IF ticks = 0 THEN 1 ELSE 2
  /\ UNCHANGED << phase, loadVars, posTarget, velTarget, cmd >>

\* ------------------------------------------------------------ commands
Speeds == {10, 20}
Angles == {3}

DriveCommands ==
  [speed : Speeds, steering_angle : Angles, nan : SUBSET {"speed"}]

\* A command with a NaN field is malformed.
WellFormed(c) == c.nan = {}

\* The translation: both steer joints get the angle, both back axles the speed.
TranslatePosition(c, b, targets) ==
  IF WellFormed(c)
  THEN Put(Put(targets, ScopedName(b["fl_str_joint"]), c.steering_angle),
           ScopedName(b["fr_str_joint"]), c.steering_angle)
  ELSE targets

TranslateVelocity(c, b, targets) ==
  IF WellFormed(c)
  THEN Put(Put(targets, ScopedName(b["bl_axle_joint"]), c.speed),
           ScopedName(b["br_axle_joint"]), c.speed)
  ELSE targets

\* joy_callback: the axes are passed through as angle and speed
JoyToDrive(axes) ==
  [speed |-> axes.speed, steering_angle |-> axes.steer, nan |-> axes.nan]

JoyAxes == [speed : Speeds, steer : Angles, nan : {{}}]

Command(channel, c) ==
  /\ posTarget' = TranslatePosition(c, bound, posTarget)
  /\ velTarget' = TranslateVelocity(c, bound, velTarget)
  /\ cmd' = << [channel |-> channel, msg |-> c] >>
  /\ tickKind' = "none"
  /\ out' = << >>
  /\ delivered' = FALSE
  /\ UNCHANGED << phase, loadVars, now, pose, tickVars >>

ackermann_callback(c) ==
  /\ "ackermann_sub" \in subs
  /\ Command("ackermann", c)

joy_callback(axes) ==
  /\ "joy_sub" \in subs
  /\ Command("joy", JoyToDrive(axes))

\* ------------------------------------------------------- specifications
DoLoad == phase = "constructed" /\ \E m \in ModelDescriptions : Load(m)

\* Ticks on a non-decreasing clock.
DoUpdate == \E d \in 0..MaxStep, p \in 0..MaxPose, ok \in BOOLEAN : Update(d, p, ok)

\* Ticks on a strictly increasing clock (the first tick may read any time).
DoUpdateStrict ==
  \E d \in 0..MaxStep, p \in 0..MaxPose, ok \in BOOLEAN :
     (d >= 1 \/ ticks = 0) /\ Update(d, p, ok)

DoAckermann == \E c \in DriveCommands : ackermann_callback(c)

DoJoy == \E a \in JoyAxes : joy_callback(a)

Next == DoLoad \/ DoUpdate \/ DoAckermann \/ DoJoy

Spec == Init /\ [][Next]_vars

NextStrict == DoLoad \/ DoUpdateStrict \/ DoAckermann \/ DoJoy

SpecStrict == Init /\ [][NextStrict]_vars

\* The world keeps stepping and calls Update on every step.
SpecLive == Init /\ [][NextStrict]_vars /\ WF_vars(DoUpdateStrict)

\* ------------------------------------------------------------ properties
\* The step is a call of Update (every other action clears tickKind).
UpdateReturns == tickKind' # "none"

JointStates(o) == SelectSeq(o, LAMBDA m : m.topic = "/joint_states")

OdometryMsgs(o) == SelectSeq(o, LAMBDA m : m.topic \in {"odo_fl", "odo_fr"})

\* The update period in clock units.
PeriodUnits == (DefaultUpdatePeriodMs * UnitsPerSecond) \div 1000

TenRoleJoints ==
  { "front_left_wheel_steer_joint", "front_right_wheel_steer_joint",
    "front_left_shock_joint", "front_right_shock_joint",
    "back_left_shock_joint", "back_right_shock_joint",
    "front_left_wheel_joint", "front_right_wheel_joint",
    "back_left_wheel_joint", "back_right_wheel_joint" }

\* C1: on a strictly increasing clock, a tick entered with the scheduler
\* calibrated (last_sim_time_ # 0) publishes if and only if
\* (cur_time - last_update_time_) * 1000 >= update_period_ms_, where
\* last_update_time_ is the time of the last publish, or of the calibration
\* tick when nothing was published yet; a publishing tick sets
\* last_update_time_ to cur_time, any other tick publishes nothing and
\* leaves last_update_time_ alone.
C1_PublishIffPeriodElapsed ==
  [][ (UpdateReturns /\ last_sim_time_ # 0) =>
        LET due == (now' - last_update_time_) * 1000 >= update_period_ms_ * UnitsPerSecond
        IN /\ calib # << >>
           /\ last_update_time_ = IF pubs # << >> THEN pubs[1] ELSE calib[1]
           /\ due <=> (JointStates(out') # << >>)
           /\ due <=> (OdometryMsgs(out') # << >>)
           /\ due => last_update_time_' = now' /\ pubs' = << now' >>
           /\ ~due => out' = << >> /\ last_update_time_' = last_update_time_ /\ pubs' = pubs
    ]_vars

C1_Witness ==
  /\ tickKind = "publish"
  /\ calib # << >>
  /\ now >= calib[1] + 2 * PeriodUnits + 1

\* C2: a tick entered with last_sim_time_ = 0 publishes neither joint state
\* nor odometry and leaves both timestamps at the tick's sim time.
C2_CalibrationTick ==
  [][ (UpdateReturns /\ last_sim_time_ = 0) =>
        /\ out' = << >>
        /\ last_sim_time_' = now'
        /\ last_update_time_' = now'
    ]_vars

C2_Witness ==
  /\ tickKind = "calibration"
  /\ now > 0
  /\ last_sim_time_ = now
  /\ last_update_time_ = now

\* C3: on a non-decreasing clock, the sim times of two consecutive
\* joint-state publishes are at least update_period_ms_ apart, and a tick
\* publishes at most one joint-state message.
C3_PublishRateBounded ==
  [][ UpdateReturns =>
        /\ Len(JointStates(out')) <= 1
        /\ (JointStates(out') # << >> /\ pubs # << >>) =>
              (now' - pubs[1]) * 1000 >= update_period_ms_ * UnitsPerSecond
    ]_vars

C3_Witness ==
  /\ tickKind = "publish"
  /\ Len(JointStates(out)) = 1
  /\ calib # << >>
  /\ now = calib[1] + 2 * PeriodUnits

\* C4: when one of the ten role joints is missing from the joints discovered
\* in the model, Load fails, Update is never connected to the world-update
\* event and no tick ever runs.
C4_MissingRoleJointAbortsLoad ==
  (phase # "constructed" /\ \E n \in TenRoleJoints : model_[n] # "revolute") =>
     /\ phase = "failed"
     /\ ~update_connection_
     /\ ticks = 0
     /\ tickKind = "none"
     /\ last_sim_time_ = 0

C4_Witness ==
  /\ phase = "failed"
  /\ model_["back_right_wheel_joint"] = "absent"
  /\ bound["bl_axle_joint"] = "back_left_wheel_joint"
  /\ bound["br_axle_joint"] = NullJoint

\* C5: a joint-state publish carries as many names as positions, one pair
\* for each non-fixed joint of the model, in the iteration order of the
\* registry, each position being the current position of the joint named
\* at the same index; the tick changes neither the registry, nor the
\* targets, nor the PID gains.
C5_JointStateMatchesRegistry ==
  [][ (UpdateReturns /\ tickKind' = "publish") =>
        /\ Len(JointStates(out')) = 1
        /\ LET m == JointStates(out')[1].msg IN
             /\ Len(m.name) = Len(m.position)
             /\ Len(m.name) = Cardinality({ n \in AllNames : model_[n] = "revolute" })
             /\ { m.name[i] : i \in 1..Len(m.name) } = DOMAIN joints_
             /\ \A i \in 1..Len(m.name) : \A k \in 1..Len(m.name) :
                   i < k => Rank(m.name[i]) < Rank(m.name[k])
             /\ \A i \in 1..Len(m.name) :
                   i <= Len(m.position) /\ m.position[i] = Position(m.name[i], pose')
        /\ UNCHANGED << joints_, joint_targets_, posPID, velPID, posTarget, velTarget >>
    ]_vars

C5_Witness ==
  /\ tickKind = "publish"
  /\ pose = 1
  /\ "steering_joint" \in DOMAIN joints_
  /\ Len(JointStates(out)[1].msg.name) = 11

\* C6: once Load has completed, the position target of each of the four
\* shock joints is 0.0, whatever ticks and commands have been handled.
C6_ShockTargetsStayZero ==
  phase = "loaded" =>
    \A n \in { "front_left_shock_joint", "front_right_shock_joint",
                "back_left_shock_joint", "back_right_shock_joint" } :
       /\ ScopedName(n) \in DOMAIN posTarget
       /\ posTarget[ScopedName(n)] = 0
       /\ ScopedName(n) \notin DOMAIN velTarget
       /\ joint_targets_[n] = 0

C6_Witness ==
  /\ phase = "loaded"
  /\ cmd # << >>
  /\ tickKind = "publish"
  /\ ScopedName("front_left_wheel_steer_joint") \in DOMAIN posTarget

\* C7: after the Ackermann callback has handled a well-formed command of
\* speed v and steering angle a, both front steer position targets are a
\* and both back axle velocity targets are v.
C7_AckermannTargets ==
  (cmd # << >> /\ cmd[1].channel = "ackermann" /\ cmd[1].msg.nan = {}) =>
     /\ \A n \in { "front_left_wheel_steer_joint", "front_right_wheel_steer_joint" } :
           /\ ScopedName(n) \in DOMAIN posTarget
           /\ posTarget[ScopedName(n)] = cmd[1].msg.steering_angle
     /\ \A n \in { "back_left_wheel_joint", "back_right_wheel_joint" } :
           /\ ScopedName(n) \in DOMAIN velTarget
           /\ velTarget[ScopedName(n)] = cmd[1].msg.speed

C7_Witness ==
  /\ cmd # << >>
  /\ cmd[1].channel = "ackermann"
  /\ cmd[1].msg = [speed |-> 20, steering_angle |-> 3, nan |-> {}]
  /\ velTarget[ScopedName("back_right_wheel_joint")] = 20
  /\ ticks = 2

\* C8: on a non-decreasing clock that may read 0 on the first tick, only
\* the first tick is a calibration tick.
C8_OnlyFirstTickCalibrates ==
  tickKind = "calibration" => ticks = 1

\* C9: a gated tick resets last_update_time_ whether or not the transport
\* delivered the messages, and on a clock that keeps increasing every
\* calibrated state is followed by a later publish.  Within the horizon of
\* the model: from a calibrated state that leaves a full period before
\* MaxTime, the clock reaches MaxTime with a publish inside the last period.
C9_PublishKeepsHappening ==
  /\ [](tickKind = "publish" => last_update_time_ = now)
  /\ (last_sim_time_ # 0 /\ now + PeriodUnits <= MaxTime)
        ~> (now = MaxTime /\ pubs # << >> /\ pubs[1] + PeriodUnits > MaxTime)

C9_Witness ==
  /\ tickKind = "publish"
  /\ ~delivered
  /\ last_update_time_ = now
  /\ now = MaxTime

\* C10: after every tick on a non-decreasing clock last_sim_time_ is the
\* tick's sim time and last_update_time_ <= last_sim_time_; update_dt of a
\* tick is never negative.
C10_TimestampsBehindClock ==
  [][ UpdateReturns =>
        /\ last_sim_time_' = now'
        /\ last_update_time_' <= last_sim_time_'
        /\ last_sim_time_ # 0 => now' - last_update_time_ >= 0
    ]_vars

C10_Witness ==
  /\ tickKind = "idle"
  /\ last_sim_time_ = now
  /\ last_update_time_ < last_sim_time_

====
